---- MODULE Spec2Model ----
(***************************************************************************)
(* A model of cubehelix.cmap (src/cubehelix.py): Dave Green's "cubehelix"  *)
(* colour map, built as three piecewise-linear channel tables.             *)
(*                                                                         *)
(* Real numbers are fixed point: the integer x stands for x / Scale.       *)
(* Scale is a multiple of nlev-1, so that every grid value k/(nlev-1) is   *)
(* represented exactly; products are rounded down to the resolution.       *)
(* Floating point rounding, infinities and NaN are not modelled.           *)
(***************************************************************************)
EXTENDS Integers, Sequences, FiniteSets, TLC

\* Resolution: how many fixed-point units one grid step 1/(nlev-1) holds.
Unit == 40

\* nlev = 256.
nlev == 256

\* The fixed-point representation of 1.0.
Scale == Unit * (nlev - 1)

\* a*b and a/b on fixed-point numbers.
Mul(a, b) == (a * b) \div Scale

\* from math import pi
PiFx == (31416 * Scale) \div 10000

HalfPiFx == PiFx \div 2

\* cos on [0, pi/2]: the Taylor polynomial up to x^8, in Horner form.
CosQ(x) ==
    LET x2 == Mul(x, x)
        c3 == Scale - (x2 \div 56)
        c2 == Scale - Mul(x2 \div 30, c3)
        c1 == Scale - Mul(x2 \div 12, c2)
    IN  Scale - Mul(x2 \div 2, c1)

\* np.cos: reduction of the argument to [0, 2 pi), then to [0, pi/2].
Cos(a) ==
    LET r  == a % (2 * PiFx)
        r2 == IF r > PiFx THEN 2 * PiFx - r ELSE r
    IN  IF r2 > HalfPiFx THEN 0 - CosQ(PiFx - r2) ELSE CosQ(r2)

\* np.sin
Sin(a) == Cos(a - HalfPiFx)

\* x**n for a whole number n >= 0 (0**0 = 1, as numpy has it).
RECURSIVE IntPow(_, _)
IntPow(x, n) == IF n = 0 THEN Scale ELSE Mul(x, IntPow(x, n - 1))

\* fract**gamma, on the whole-number exponents the model draws gamma from.
Pow(x, g) == IntPow(x, g \div Scale)

\* The coefficients of the main equations, in units of 1e-5.
RedCos == -14861
RedSin == 178277
GrnCos == -29227
GrnSin == -90649
BluCos == 197294

\* coefficient * x, the coefficient in units of 1e-5.
Coef(c, x) == (c * x) \div 100000

\* fract = np.arange(nlev)/(nlev-1.)       (index i of the model is k = i-1)
Arange == [i \in 1..nlev |-> ((i - 1) * Scale) \div (nlev - 1)]

\* angle = 2.0*pi * (start/3.0 + 1.0 + rot*fract)
AngleOf(s, r, f) ==
    [i \in DOMAIN f |-> 2 * Mul(PiFx, (s \div 3) + Scale + Mul(r, f[i]))]

\* fract = fract**gamma
Warp(f, g) == [i \in DOMAIN f |-> Pow(f[i], g)]

AmpNoHue(h, f) == [i \in DOMAIN f |-> Mul(f[i], Scale - f[i]) \div 2]

AmpNoFall(h, f) == [i \in DOMAIN f |-> Mul(h, f[i]) \div 2]

\* amp = hue*fract*(1.-fract)/2.
AmpOf(h, f) ==
    [i \in DOMAIN f |-> LET x == f[i] IN Mul(Mul(h, x), Scale - x) \div 2]

\* fract + amp*(c*np.cos(angle) + s*np.sin(angle))
Channel(f, a, ang, c, s) ==
    [i \in DOMAIN f |->
        LET t == ang[i]
        IN  f[i] + Mul(a[i], Coef(c, Cos(t)) + Coef(s, Sin(t)))]

ClipAboveOff(v) == v

\* v[np.where((v > 1.))] = 1.
ClipAbove(v) ==
    [i \in DOMAIN v |-> LET x == v[i] IN IF x > Scale THEN Scale ELSE x]

\* v[np.where((v < 0.))] = 0.
ClipBelow(v) ==
    [i \in DOMAIN v |-> LET x == v[i] IN IF x < 0 THEN 0 ELSE x]

RevOff(v) == v

\* v[::-1]
Rev(v) == [i \in 1..Len(v) |-> v[Len(v) + 1 - i]]

TableStepped(v) ==
    [i \in 1..nlev |->
        <<((i - 1) * Scale) \div (nlev - 1), v[IF i = 1 THEN 1 ELSE i - 1], v[i]>>]

TableShort(v) ==
    [i \in 1..nlev |-> <<((i - 1) * Scale) \div nlev, v[i], v[i]>>]

\* for k in range(0,int(nlev)): xx.append((float(k)/(nlev-1.), v[k], v[k]))
Table(v) ==
    [i \in 1..nlev |->
        LET y == v[i] IN <<((i - 1) * Scale) \div (nlev - 1), y, y>>]

\* The piecewise-linear map a channel table defines, looked up at v:
\* v is clamped to [0,1], then interpolated between the bracketing entries.
Clamp01(v) == IF v < 0 THEN 0 ELSE IF v > Scale THEN Scale ELSE v

Bracket(tab, x) ==
    CHOOSE i \in 1..Len(tab) :
        tab[i][1] <= x /\ (i = Len(tab) \/ tab[i + 1][1] > x)

InterpChannel(tab, v) ==
    LET x == Clamp01(v)
        i == Bracket(tab, x)
    IN  IF i = Len(tab)
        THEN tab[i][2]
        ELSE tab[i][3]
             + ((x - tab[i][1]) * (tab[i + 1][2] - tab[i][3]))
               \div (tab[i + 1][1] - tab[i][1])

Interpolate(cdict, v) ==
    <<InterpChannel(cdict.red, v), InterpChannel(cdict.green, v),
      InterpChannel(cdict.blue, v)>>

(***************************************************************************)
(* The state of one call of cmap.                                          *)
(***************************************************************************)
VARIABLES
    pc,        \* where the call stands
    start, rot, gamma, hue, reverse,   \* the arguments of the call
    extra,     \* <<s>> when the call passes a sixth argument, samples=s
    raised,    \* the exception the call raised, or "none"
    fract, angle, amp,                 \* the locals of the set-up
    red, grn, blu,                     \* the RGB vectors
    rr, bb, gg,                        \* the lists of (x, y0, y1) tuples
    result,    \* <<cdict>> once the colour map is returned
    query, colour                      \* the last lookup and its answer

vars == <<pc, start, rot, gamma, hue, reverse, extra, raised, fract, angle,
          amp, red, grn, blu, rr, bb, gg, result, query, colour>>

args == <<start, rot, gamma, hue, reverse>>
locals == <<fract, angle, amp, red, grn, blu, rr, bb, gg>>

\* The arguments the model calls cmap with (0.5, -1.5, 1.0, 1.2 are the
\* defaults of the signature).
StartSet == {0, Scale \div 2, 4 * Scale}
RotSet == {(0 - 3 * Scale) \div 2, 0, Scale}
GammaSet == {0, Scale, 2 * Scale}
HueSet == {0 - Scale, 0, (6 * Scale) \div 5, 3 * Scale}
SamplesArgs == {0, 1, 256}
QuerySet == {0 - Scale, 0, 100 * Unit, 127 * Unit + Unit \div 2, Scale, 2 * Scale}

Init ==
    /\ pc = "call"
    /\ start \in StartSet
    /\ rot \in RotSet
    /\ gamma \in GammaSet
    /\ hue \in HueSet
    /\ reverse \in BOOLEAN
    /\ extra = <<>>
    /\ raised = "none"
    /\ fract = <<>> /\ angle = <<>> /\ amp = <<>>
    /\ red = <<>> /\ grn = <<>> /\ blu = <<>>
    /\ rr = <<>> /\ bb = <<>> /\ gg = <<>>
    /\ result = <<>>
    /\ query = <<>> /\ colour = <<>>

\* def cmap(start=0.5, rot=-1.5, gamma=1.0, hue=1.2, reverse=False):
\* a call that binds the five parameters enters the body.
Call ==
    /\ pc = "call"
    /\ pc' = "setup"
    /\ UNCHANGED <<args, extra, raised, locals, result, query, colour>>

CallAcceptsSamples ==
    /\ pc = "call"
    /\ \E s \in SamplesArgs :
        /\ extra' = <<s>>
        /\ IF s <= 1
           THEN raised' = "InvalidSampleCount" /\ pc' = "done"
           ELSE raised' = "none" /\ pc' = "setup"
    /\ UNCHANGED <<args, locals, result, query, colour>>

\* The signature has no sixth parameter: a call that passes samples is
\* rejected with TypeError before the body runs.
CallUnexpected ==
    /\ pc = "call"
    /\ \E s \in SamplesArgs : extra' = <<s>>
    /\ raised' = "TypeError"
    /\ pc' = "done"
    /\ UNCHANGED <<args, locals, result, query, colour>>

SetUpValidating ==
    /\ pc = "setup"
    /\ IF gamma <= 0 \/ hue < 0 \/ start < 0 \/ start >= 3 * Scale
       THEN /\ raised' = "ValueError"
            /\ pc' = "done"
            /\ UNCHANGED <<fract, angle, amp>>
       ELSE /\ angle' = AngleOf(start, rot, Arange)
            /\ fract' = Warp(Arange, gamma)
            /\ amp' = AmpOf(hue, Warp(Arange, gamma))
            /\ pc' = "rgb"
            /\ UNCHANGED raised
    /\ UNCHANGED <<args, extra, red, grn, blu, rr, bb, gg, result, query, colour>>

\* #-- set up the parameters
SetUp ==
    /\ pc = "setup"
    /\ angle' = AngleOf(start, rot, Arange)
    /\ fract' = Warp(Arange, gamma)
    /\ amp' = AmpOf(hue, Warp(Arange, gamma))
    /\ pc' = "rgb"
    /\ UNCHANGED <<args, extra, raised, red, grn, blu, rr, bb, gg, result,
                   query, colour>>

\* #-- compute the RGB vectors according to main equations
Rgb ==
    /\ pc = "rgb"
    /\ red' = Channel(fract, amp, angle, RedCos, RedSin)
    /\ grn' = Channel(fract, amp, angle, GrnCos, GrnSin)
    /\ blu' = Channel(fract, amp, angle, BluCos, 0)
    /\ pc' = "clip_hi"
    /\ UNCHANGED <<args, extra, raised, fract, angle, amp, rr, bb, gg, result,
                   query, colour>>

ClipHighRedMask ==
    /\ pc = "clip_hi"
    /\ red' = ClipAbove(red)
    /\ grn' = [i \in DOMAIN grn |-> IF red[i] > Scale THEN Scale ELSE grn[i]]
    /\ blu' = [i \in DOMAIN blu |-> IF red[i] > Scale THEN Scale ELSE blu[i]]
    /\ pc' = "clip_lo"
    /\ UNCHANGED <<args, extra, raised, fract, angle, amp, rr, bb, gg, result,
                   query, colour>>

\* #-- find where RBB are outside the range [0,1], clip: the values above 1
ClipHigh ==
    /\ pc = "clip_hi"
    /\ red' = ClipAbove(red)
    /\ grn' = ClipAbove(grn)
    /\ blu' = ClipAbove(blu)
    /\ pc' = "clip_lo"
    /\ UNCHANGED <<args, extra, raised, fract, angle, amp, rr, bb, gg, result,
                   query, colour>>

\* ... and the values below 0
ClipLow ==
    /\ pc = "clip_lo"
    /\ red' = ClipBelow(red)
    /\ grn' = ClipBelow(grn)
    /\ blu' = ClipBelow(blu)
    /\ pc' = "reverse"
    /\ UNCHANGED <<args, extra, raised, fract, angle, amp, rr, bb, gg, result,
                   query, colour>>

ReverseForgetsGreen ==
    /\ pc = "reverse"
    /\ IF reverse = TRUE
       THEN red' = Rev(red) /\ blu' = Rev(blu) /\ grn' = grn
       ELSE UNCHANGED <<red, grn, blu>>
    /\ pc' = "table"
    /\ UNCHANGED <<args, extra, raised, fract, angle, amp, rr, bb, gg, result,
                   query, colour>>

\* #-- optional color reverse
Reverse ==
    /\ pc = "reverse"
    /\ IF reverse = TRUE
       THEN red' = Rev(red) /\ blu' = Rev(blu) /\ grn' = Rev(grn)
       ELSE UNCHANGED <<red, grn, blu>>
    /\ pc' = "table"
    /\ UNCHANGED <<args, extra, raised, fract, angle, amp, rr, bb, gg, result,
                   query, colour>>

\* #-- put in to tuple & dictionary structures needed: the whole loop
BuildTables ==
    /\ pc = "table"
    /\ rr' = Table(red)
    /\ bb' = Table(blu)
    /\ gg' = Table(grn)
    /\ pc' = "return"
    /\ UNCHANGED <<args, extra, raised, fract, angle, amp, red, grn, blu,
                   result, query, colour>>

\* cdict = {'red':rr, 'blue':bb, 'green':gg}; return LSC('cubehelix_map',cdict)
Return ==
    /\ pc = "return"
    /\ result' = <<[red |-> rr, blue |-> bb, green |-> gg]>>
    /\ pc' = "done"
    /\ UNCHANGED <<args, extra, raised, locals, query, colour>>

\* A continuous lookup in the returned colour map.
Lookup ==
    /\ pc = "done"
    /\ Len(result) = 1
    /\ \E v \in QuerySet :
        /\ query' = <<v>>
        /\ colour' = <<Interpolate(result[1], v)>>
    /\ UNCHANGED <<pc, args, extra, raised, locals, result>>

Next ==
    \/ Call
    \/ CallUnexpected
    \/ SetUp
    \/ Rgb
    \/ ClipHigh
    \/ ClipLow
    \/ Reverse
    \/ BuildTables
    \/ Return
    \/ Lookup

Spec == Init /\ [][Next]_vars

\* cmap as a function of its arguments: the dictionary it returns.
Cmap(s, r, g, h, rev) ==
    LET f  == Warp(Arange, g)
        an == AngleOf(s, r, Arange)
        a  == AmpOf(h, f)
        cr == ClipBelow(ClipAbove(Channel(f, a, an, RedCos, RedSin)))
        cg == ClipBelow(ClipAbove(Channel(f, a, an, GrnCos, GrnSin)))
        cb == ClipBelow(ClipAbove(Channel(f, a, an, BluCos, 0)))
    IN  [red   |-> Table(IF rev = TRUE THEN Rev(cr) ELSE cr),
         blue  |-> Table(IF rev = TRUE THEN Rev(cb) ELSE cb),
         green |-> Table(IF rev = TRUE THEN Rev(cg) ELSE cg)]

(***************************************************************************)
(* The returned palette, read by sample index k = 0 .. nlev-1.             *)
(***************************************************************************)
Returned == pc = "done" /\ Len(result) = 1
Last == nlev - 1
Samples == 0..Last
T(k) == result[1].red[k + 1][1]
R(k) == result[1].red[k + 1][2]
G(k) == result[1].green[k + 1][2]
B(k) == result[1].blue[k + 1][2]
Rgb3(cdict, k) == <<cdict.red[k + 1][2], cdict.green[k + 1][2], cdict.blue[k + 1][2]>>
Black == <<0, 0, 0>>
White == <<Scale, Scale, Scale>>
IsDefault ==
    /\ start = Scale \div 2
    /\ rot = (0 - 3 * Scale) \div 2
    /\ gamma = Scale
    /\ hue = (6 * Scale) \div 5

\* C1. Clamp invariant: for gamma > 0 and hue >= 0, every red, green and blue
\* value of the returned palette lies in [0, 1].
ClampInvariant ==
    (Returned /\ gamma > 0 /\ hue >= 0) =>
        \A k \in Samples :
            /\ 0 <= R(k) /\ R(k) <= Scale
            /\ 0 <= G(k) /\ G(k) <= Scale
            /\ 0 <= B(k) /\ B(k) <= Scale

\* A returned palette in which the clamp has saturated interior samples at
\* both ends of the range.
ClampWitness ==
    /\ Returned /\ gamma > 0 /\ hue >= 0
    /\ \E k \in 1..(Last - 1) : B(k) = Scale /\ R(k) < Scale
    /\ \E k \in 1..(Last - 1) : R(k) = 0 /\ G(k) > 0

\* C2. Domain grid: the palette has nlev = 256 entries per channel, sample k
\* has t = k/(nlev-1), from 0 to 1, evenly spaced and strictly increasing,
\* and the three channels carry the same t at every index.
DomainGrid ==
    Returned =>
        /\ nlev = 256
        /\ Len(result[1].red) = nlev
        /\ Len(result[1].green) = nlev
        /\ Len(result[1].blue) = nlev
        /\ \A k \in Samples :
            /\ T(k) * (nlev - 1) = k * Scale
            /\ result[1].green[k + 1][1] = T(k)
            /\ result[1].blue[k + 1][1] = T(k)
        /\ T(0) = 0
        /\ T(Last) = Scale
        /\ \A k \in 0..(Last - 1) :
            T(k + 1) > T(k) /\ T(k + 1) - T(k) = T(1) - T(0)

DomainGridWitness ==
    Returned /\ reverse = TRUE /\ T(Last) = Scale /\ T(1) = Unit

\* C3. Black-to-white endpoints: with reverse=False and gamma > 0, whatever
\* start, rot and hue, sample 0 is (0,0,0) and sample nlev-1 is (1,1,1).
BlackToWhite ==
    (Returned /\ reverse = FALSE /\ gamma > 0) =>
        Rgb3(result[1], 0) = Black /\ Rgb3(result[1], Last) = White

\* The default configuration, returned, with a coloured interior.
BlackToWhiteWitness ==
    /\ Returned /\ reverse = FALSE /\ IsDefault
    /\ Rgb3(result[1], 0) = Black /\ Rgb3(result[1], Last) = White
    /\ \E k \in Samples : R(k) # G(k)

\* C4. Reversal law: the palette built with reverse=True holds at index k the
\* (r,g,b) that the palette of the same start, rot, gamma, hue and
\* reverse=False holds at index nlev-1-k; the t coordinates are the same.
ReversalLaw ==
    Returned =>
        LET fwd == Cmap(start, rot, gamma, hue, FALSE)
            Law(tab, ftab) ==
                \A k \in Samples :
                    LET there == ftab[IF reverse = TRUE THEN nlev - k ELSE k + 1]
                        same  == ftab[k + 1]
                        here  == tab[k + 1]
                    IN  /\ here[2] = there[2]
                        /\ here[3] = there[3]
                        /\ here[1] = same[1]
        IN  /\ Law(result[1].red, fwd.red)
            /\ Law(result[1].green, fwd.green)
            /\ Law(result[1].blue, fwd.blue)

\* A reversed palette that is not a palindrome: the reversal is visible.
ReversalWitness ==
    /\ Returned /\ reverse = TRUE
    /\ \E k \in Samples : Rgb3(result[1], k) # Rgb3(result[1], Last - k)
    /\ \E k \in Samples : G(k) # R(k)

\* C5. Grayscale at hue=0: with hue=0, reverse=False and gamma > 0, every
\* sample has r = g = b = t^gamma.
GrayscaleAtZeroHue ==
    (Returned /\ hue = 0 /\ reverse = FALSE /\ gamma > 0) =>
        \A k \in Samples :
            R(k) = Pow(T(k), gamma) /\ G(k) = R(k) /\ B(k) = R(k)

\* A gray ramp with gamma = 2: an interior sample below its t.
GrayscaleWitness ==
    /\ Returned /\ hue = 0 /\ reverse = FALSE /\ gamma = 2 * Scale
    /\ rot # 0
    /\ \E k \in Samples : R(k) < T(k) /\ R(k) > 0

\* C6, as claimed: a call with samples <= 1 raises InvalidSampleCount, the
\* only failure kind the generator signals.
InvalidSampleCountRaised ==
    /\ (pc = "done" /\ Len(extra) = 1 /\ extra[1] <= 1) =>
           raised = "InvalidSampleCount"
    /\ raised \in {"none", "InvalidSampleCount"}

\* C6, amended: the generator takes no sample count. A call that passes
\* samples, whatever its value, raises TypeError and returns no palette; a
\* call that passes none raises nothing and returns nlev = 256 > 1 samples.
SampleCountFixed ==
    /\ raised \in {"none", "TypeError"}
    /\ pc = "done" =>
        /\ Len(extra) = 1 => (raised = "TypeError" /\ result = <<>> /\ rr = <<>>)
        /\ Len(extra) = 0 =>
            /\ raised = "none"
            /\ Len(result) = 1
            /\ Len(result[1].red) = nlev
            /\ nlev = 256

SampleCountWitness ==
    pc = "done" /\ extra = <<0>> /\ raised = "TypeError" /\ result = <<>>

\* C7. Totality: whatever start, rot, gamma, hue and reverse, the call raises
\* nothing, every step of the body can be taken, and it returns a palette of
\* nlev samples in each channel.
Totality ==
    Len(extra) = 0 =>
        /\ raised = "none"
        /\ pc # "done" => ENABLED Next
        /\ pc = "done" =>
            /\ Len(result) = 1
            /\ Len(result[1].red) = nlev
            /\ Len(result[1].green) = nlev
            /\ Len(result[1].blue) = nlev

\* A palette returned for arguments outside their typical ranges.
TotalityWitness ==
    /\ Returned /\ raised = "none"
    /\ start >= 3 * Scale /\ hue < 0 /\ gamma = 0
    /\ Len(result[1].blue) = nlev

\* C8. Continuous lookup: the query is clamped to [0,1] and answered, per
\* channel, by linear interpolation between the bracketing samples; at a
\* sample's t (v = 0 and v = 1 among them) the answer is that sample's colour,
\* and every table entry holds one colour (its value from below equals its
\* value from above).
ContinuousLookup ==
    Returned =>
        /\ \A k \in Samples :
            /\ result[1].red[k + 1][2] = result[1].red[k + 1][3]
            /\ result[1].green[k + 1][2] = result[1].green[k + 1][3]
            /\ result[1].blue[k + 1][2] = result[1].blue[k + 1][3]
        /\ Len(query) = 1 =>
            LET x == Clamp01(query[1])
                i == CHOOSE k \in Samples :
                         T(k) <= x /\ (k = Last \/ T(k + 1) > x)
                j == IF i = Last THEN i ELSE i + 1
                Mix(lo, hi) ==
                    IF i = Last THEN lo
                    ELSE lo + ((x - T(i)) * (hi - lo)) \div (T(j) - T(i))
            IN  /\ colour[1] = <<Mix(R(i), R(j)), Mix(G(i), G(j)), Mix(B(i), B(j))>>
                /\ x = T(i) => colour[1] = Rgb3(result[1], i)
                /\ query[1] <= 0 => colour[1] = Rgb3(result[1], 0)
                /\ query[1] >= Scale => colour[1] = Rgb3(result[1], Last)

\* A lookup strictly between two samples of different colour.
LookupWitness ==
    /\ Returned /\ Len(query) = 1
    /\ query[1] = 127 * Unit + Unit \div 2
    /\ colour[1][1] # R(127) /\ colour[1][1] # R(128)

Hard01(v) == \A i \in DOMAIN v : 0 <= v[i] /\ v[i] <= Scale
\* What a step of the call does to the RGB vectors while it clamps and
\* reverses.
ClampStep ==
    /\ pc = "clip_hi" =>
        /\ pc' = "clip_lo"
        /\ \A i \in DOMAIN red :
            /\ red'[i] = (IF red[i] > Scale THEN Scale ELSE red[i])
            /\ grn'[i] = (IF grn[i] > Scale THEN Scale ELSE grn[i])
            /\ blu'[i] = (IF blu[i] > Scale THEN Scale ELSE blu[i])
    /\ pc = "clip_lo" =>
        /\ pc' = "reverse"
        /\ \A i \in DOMAIN red :
            /\ red'[i] = (IF red[i] < 0 THEN 0 ELSE red[i])
            /\ grn'[i] = (IF grn[i] < 0 THEN 0 ELSE grn[i])
            /\ blu'[i] = (IF blu[i] < 0 THEN 0 ELSE blu[i])
    /\ pc = "reverse" =>
        /\ Hard01(red) /\ Hard01(grn) /\ Hard01(blu)
        /\ \A i \in DOMAIN red :
            LET src == IF reverse = TRUE THEN Len(red) + 1 - i ELSE i
            IN  red'[i] = red[src] /\ grn'[i] = grn[src] /\ blu'[i] = blu[src]

\* C10. Independent hard clamp: each clamp step maps every channel value by
\* itself (above 1 to 1, below 0 to 0, otherwise unchanged), whatever the
\* other channels and samples hold; both steps precede the reversal, which
\* then only permutes values already in [0,1].
IndependentClamp == [][ClampStep]_vars

\* After both clamp steps: a sample with one channel saturated at 1 and
\* another untouched, and a sample with one channel saturated at 0 and
\* another untouched.
IndependentClampWitness ==
    /\ pc = "reverse"
    /\ \E i \in 2..Last : blu[i] = Scale /\ 0 < red[i] /\ red[i] < Scale
    /\ \E i \in 2..Last : red[i] = 0 /\ 0 < grn[i] /\ grn[i] < Scale

====
